---- MODULE Spec2Model ----
(***************************************************************************)
(* The inventory dashboard component App (src/src/App.tsx).                *)
(*                                                                         *)
(* The component holds one piece of state, stocks, and talks to the        *)
(* inventory service with two requests: GET /v1/stocks (fetchStocks) and   *)
(* POST /v1/stocks (addStock).  Every await of the source is a point where *)
(* the handler is suspended; the code before the await and the code after  *)
(* it are separate atomic steps of the single UI thread.                   *)
(*                                                                         *)
(* A JSON object (Record<string, number>) is a sequence of entries         *)
(* [k |-> name, v |-> quantity] with pairwise different names, in the      *)
(* object's own key order, which is what Object.entries enumerates.        *)
(***************************************************************************)
EXTENDS Integers, Sequences, FiniteSets, TLC

VARIABLES
    stocks,     \* the component state of useState (the snapshot)
    view,       \* the <li> items on display, as last rendered
    mounted,    \* TRUE once the mount effect has run
    clicks,     \* number of activations of the button so far
    reqs,       \* every request issued so far, in the order of issue
    lastOk,     \* history: id of the GET that returned last (0: none yet)
    server,     \* the inventory held by the remote service
    ver         \* history: number of writes the service has applied

vars == <<stocks, view, mounted, clicks, reqs, lastOk, server, ver>>

\* Number of button activations explored.
MaxClicks == 2

\* Inventories the service may hold when the page is opened.
InitialInventories ==
    { << >>,
      << [k |-> "x", v |-> 0] >>,
      << [k |-> "apples", v |-> 3], [k |-> "bananas", v |-> 5] >> }

EmptyMap == << >>

\* A placeholder entry as the initial state.
initialStocksPlaceholder == << [k |-> "demo", v |-> 0] >>

\* useState<Record<string, number>>({})
initialStocks == EmptyMap

GetUrl  == "/v1/stocks"
PostUrl == "/v1/stocks"
DemoPayload == [name |-> "demo", amount |-> 1]

----------------------------------------------------------------------------
(* JSON objects *)

Keys(m) == { m[i].k : i \in 1..Len(m) }

\* Object spread {...old, ...new}: the old entries, overwritten where the
\* new object has the key, followed by the new object's other entries.
RECURSIVE Merge(_, _)
Merge(old, new) ==
    IF new = << >> THEN old
    ELSE LET e == Head(new)
             o == IF \E i \in 1..Len(old) : old[i].k = e.k
                  THEN [i \in 1..Len(old) |->
                           IF old[i].k = e.k THEN e ELSE old[i]]
                  ELSE Append(old, e)
         IN  Merge(o, Tail(new))

----------------------------------------------------------------------------
(* The remote inventory service *)

\* The service adds the posted amount to the item of the posted name.
ApplyPost(inv, b) ==
    IF \E i \in 1..Len(inv) : inv[i].k = b.name
    THEN [i \in 1..Len(inv) |->
             IF inv[i].k = b.name
             THEN [k |-> inv[i].k, v |-> inv[i].v + b.amount]
             ELSE inv[i]]
    ELSE Append(inv, [k |-> b.name, v |-> b.amount])

----------------------------------------------------------------------------
(* Requests *)

\* A request as axios sends it: by is the activation that issued it (0 for
\* the mount effect), st its position, resp the response body once the
\* service has answered, rver the service's write count when it answered
\* a GET.
Request(method, url, body, by) ==
    [method |-> method, url |-> url, body |-> body, by |-> by,
     st |-> "sent", resp |-> << >>, rver |-> 0]

InFlight(r) == reqs[r].st \in {"sent", "served"}

\* axios.get("/v1/stocks") of fetchStocks, up to its await.
fetchStocks(rq, by) == Append(rq, Request("GET", GetUrl, << >>, by))

\* axios.post("/v1/stocks", {name: "demo", amount: 1}) of addStock.
postStock(rq, by) == Append(rq, Request("POST", PostUrl, <<DemoPayload>>, by))

\* A setter that spreads the response over the previous state.
setStocksMerge(prev, data) == Merge(prev, data)

\* setStocks(res.data): the state is replaced by the value passed.
setStocks(prev, data) == data

Complete(rq, r, outcome) == [rq EXCEPT ![r].st = outcome]

----------------------------------------------------------------------------
(* Rendering *)

\* A list item that is left out when the quantity is falsy ({v && <li>}).
ListItemTruthy(e) ==
    IF e.v = 0 THEN << >> ELSE << e.k \o ": " \o ToString(e.v) >>

\* <li key={k}>{k}: {v}</li> : the items one entry contributes.
ListItem(e) == << e.k \o ": " \o ToString(e.v) >>

\* Object.entries(stocks).map(([k, v]) => <li>...</li>)
RECURSIVE Render(_)
Render(m) ==
    IF m = << >> THEN << >>
    ELSE ListItem(Head(m)) \o Render(Tail(m))

----------------------------------------------------------------------------
Init ==
    /\ stocks = initialStocks
    /\ view = Render(initialStocks)
    /\ mounted = FALSE
    /\ clicks = 0
    /\ reqs = << >>
    /\ lastOk = 0
    /\ server \in InitialInventories
    /\ ver = 0

\* useEffect(() => { fetchStocks(); }, []) : once, after the first render.
useEffect ==
    /\ ~mounted
    /\ mounted' = TRUE
    /\ reqs' = fetchStocks(reqs, 0)
    /\ UNCHANGED <<stocks, view, clicks, lastOk, server, ver>>

\* A button that is disabled while a request is in flight.
addStockWhenIdle ==
    /\ mounted
    /\ clicks < MaxClicks
    /\ \A r \in 1..Len(reqs) : ~InFlight(r)
    /\ clicks' = clicks + 1
    /\ reqs' = postStock(reqs, clicks + 1)
    /\ UNCHANGED <<stocks, view, mounted, lastOk, server, ver>>

\* A handler that shows the new item at once, before the service answers.
addStockOptimistic ==
    /\ mounted
    /\ clicks < MaxClicks
    /\ clicks' = clicks + 1
    /\ reqs' = postStock(reqs, clicks + 1)
    /\ stocks' = ApplyPost(stocks, DemoPayload)
    /\ view' = Render(stocks')
    /\ UNCHANGED <<mounted, lastOk, server, ver>>

\* A handler without the await: the GET is issued along with the POST.
addStockNoAwait ==
    /\ mounted
    /\ clicks < MaxClicks
    /\ clicks' = clicks + 1
    /\ reqs' = fetchStocks(postStock(reqs, clicks + 1), clicks + 1)
    /\ UNCHANGED <<stocks, view, mounted, lastOk, server, ver>>

\* onClick={addStock}: the handler up to its await.  The button has no
\* disabled attribute.  React runs the pending mount effect before it
\* dispatches a click, hence the guard on mounted.
addStock ==
    /\ mounted
    /\ clicks < MaxClicks
    /\ clicks' = clicks + 1
    /\ reqs' = postStock(reqs, clicks + 1)
    /\ UNCHANGED <<stocks, view, mounted, lastOk, server, ver>>

\* The service handles a POST: the item is added.
ServerPost(r) ==
    /\ reqs[r].method = "POST"
    /\ reqs[r].st = "sent"
    /\ server' = ApplyPost(server, reqs[r].body[1])
    /\ ver' = ver + 1
    /\ reqs' = [reqs EXCEPT ![r].st = "served"]
    /\ UNCHANGED <<stocks, view, mounted, clicks, lastOk>>

\* The service handles a GET: the response body is its inventory.
ServerGet(r) ==
    /\ reqs[r].method = "GET"
    /\ reqs[r].st = "sent"
    /\ reqs' = [reqs EXCEPT ![r].st = "served", ![r].resp = server,
                            ![r].rver = ver]
    /\ UNCHANGED <<stocks, view, mounted, clicks, lastOk, server, ver>>

\* A continuation that also adds the item to the local state.
addStockResumeOptimistic(r) ==
    /\ reqs[r].method = "POST"
    /\ reqs[r].st = "served"
    /\ reqs' = fetchStocks(Complete(reqs, r, "ok"), reqs[r].by)
    /\ stocks' = ApplyPost(stocks, reqs[r].body[1])
    /\ view' = Render(stocks')
    /\ UNCHANGED <<mounted, clicks, lastOk, server, ver>>

\* await axios.post(...) returns: addStock goes on to call fetchStocks(),
\* which issues its GET before it is suspended in turn.
addStockResume(r) ==
    /\ reqs[r].method = "POST"
    /\ reqs[r].st = "served"
    /\ reqs' = fetchStocks(Complete(reqs, r, "ok"), reqs[r].by)
    /\ UNCHANGED <<stocks, view, mounted, clicks, lastOk, server, ver>>

\* A handler that refreshes in a finally block, whatever the outcome.
addStockRejectThenFetch(r) ==
    /\ reqs[r].method = "POST"
    /\ InFlight(r)
    /\ reqs' = fetchStocks(Complete(reqs, r, "failed"), reqs[r].by)
    /\ UNCHANGED <<stocks, view, mounted, clicks, lastOk, server, ver>>

\* await axios.post(...) throws (network error, non-2xx status): addStock
\* ends with the rejection; the statement after the await is not reached.
\* The failure may come before or after the service applied the write.
addStockReject(r) ==
    /\ reqs[r].method = "POST"
    /\ InFlight(r)
    /\ reqs' = Complete(reqs, r, "failed")
    /\ UNCHANGED <<stocks, view, mounted, clicks, lastOk, server, ver>>

\* A fetch that drops its response when a newer GET has been issued.
fetchStocksResumeLatestOnly(r) ==
    /\ reqs[r].method = "GET"
    /\ reqs[r].st = "served"
    /\ stocks' = IF \E q \in (r + 1)..Len(reqs) : reqs[q].method = "GET"
                 THEN stocks
                 ELSE setStocks(stocks, reqs[r].resp)
    /\ view' = Render(stocks')
    /\ reqs' = Complete(reqs, r, "ok")
    /\ lastOk' = r
    /\ UNCHANGED <<mounted, clicks, server, ver>>

\* await axios.get(...) returns: setStocks(res.data).
fetchStocksResume(r) ==
    /\ reqs[r].method = "GET"
    /\ reqs[r].st = "served"
    /\ stocks' = setStocks(stocks, reqs[r].resp)
    /\ view' = Render(stocks')
    /\ reqs' = Complete(reqs, r, "ok")
    /\ lastOk' = r
    /\ UNCHANGED <<mounted, clicks, server, ver>>

\* A fetch whose catch block empties the list.
fetchStocksRejectClear(r) ==
    /\ reqs[r].method = "GET"
    /\ InFlight(r)
    /\ reqs' = Complete(reqs, r, "failed")
    /\ stocks' = setStocks(stocks, EmptyMap)
    /\ view' = Render(stocks')
    /\ UNCHANGED <<mounted, clicks, lastOk, server, ver>>

\* await axios.get(...) throws: fetchStocks ends with the rejection.
fetchStocksReject(r) ==
    /\ reqs[r].method = "GET"
    /\ InFlight(r)
    /\ reqs' = Complete(reqs, r, "failed")
    /\ UNCHANGED <<stocks, view, mounted, clicks, lastOk, server, ver>>

Next ==
    \/ useEffect
    \/ addStock
    \/ \E r \in 1..Len(reqs) : ServerPost(r)
    \/ \E r \in 1..Len(reqs) : ServerGet(r)
    \/ \E r \in 1..Len(reqs) : addStockResume(r)
    \/ \E r \in 1..Len(reqs) : addStockReject(r)
    \/ \E r \in 1..Len(reqs) : fetchStocksResume(r)
    \/ \E r \in 1..Len(reqs) : fetchStocksReject(r)

Spec == Init /\ [][Next]_vars

----------------------------------------------------------------------------
(* Properties *)

Ids   == 1..Len(reqs)
Gets  == { r \in Ids : reqs[r].method = "GET" }
Posts == { r \in Ids : reqs[r].method = "POST" }
GetsBy(a)  == { r \in Gets : reqs[r].by = a }
PostsBy(a) == { r \in Posts : reqs[r].by = a }
Done(r) == reqs[r].st \in {"ok", "failed"}
AllDone == reqs # << >> /\ \A r \in Ids : Done(r)
IsDemoPost(p) ==
    /\ reqs[p].url = "/v1/stocks"
    /\ reqs[p].body = << [name |-> "demo", amount |-> 1] >>
IsListGet(g) == reqs[g].url = "/v1/stocks" /\ reqs[g].body = << >>

\* C1 (as stated): every activation issues exactly one POST /v1/stocks with
\* payload name "demo", amount 1, and once that write has completed, with
\* success or with failure, exactly one GET /v1/stocks has followed it.
C1_ReadAfterEveryWrite ==
    \A a \in 1..clicks :
        /\ Cardinality(PostsBy(a)) = 1
        /\ \A p \in PostsBy(a) :
              /\ IsDemoPost(p)
              /\ Done(p) => /\ Cardinality(GetsBy(a)) = 1
                            /\ \A g \in GetsBy(a) : g > p /\ IsListGet(g)
              /\ ~Done(p) => GetsBy(a) = {}

\* C1 (amended): every activation issues exactly one POST /v1/stocks with
\* payload name "demo", amount 1; if that write succeeds exactly one GET
\* /v1/stocks follows it, and if it fails or is still pending the
\* activation has issued no GET.
C1_ReadAfterSuccessfulWrite ==
    \A a \in 1..clicks :
        /\ Cardinality(PostsBy(a)) = 1
        /\ \A p \in PostsBy(a) :
              /\ IsDemoPost(p)
              /\ reqs[p].st = "ok" => /\ Cardinality(GetsBy(a)) = 1
                                      /\ \A g \in GetsBy(a) :
                                            g > p /\ IsListGet(g)
              /\ reqs[p].st # "ok" => GetsBy(a) = {}

\* One activation whose write failed and one whose write succeeded.
C1_Witness ==
    \E a, b \in 1..clicks :
        /\ \E p \in PostsBy(a) : reqs[p].st = "failed"
        /\ GetsBy(a) = {}
        /\ \E p \in PostsBy(b) : reqs[p].st = "ok"
        /\ Cardinality(GetsBy(b)) = 1

\* C2: in the step where a GET returns successfully with body B, the
\* snapshot becomes exactly B, whatever it was before.
C2_SuccessfulReadReplaces ==
    [][\A r \in Ids :
          (reqs[r].method = "GET" /\ reqs[r].st = "served"
              /\ reqs'[r].st = "ok")
          => stocks' = reqs[r].resp]_vars

\* Two GETs have returned; the one that returned last lacks a key of the
\* other, and the snapshot is the body of the last.
C2_Witness ==
    /\ lastOk # 0
    /\ stocks = reqs[lastOk].resp
    /\ \E g \in Gets :
          /\ g # lastOk
          /\ reqs[g].st = "ok"
          /\ ~(Keys(reqs[g].resp) \subseteq Keys(stocks))
          /\ \A h \in Gets : reqs[h].st = "ok" => h \in {g, lastOk}

\* C3: in the step where a GET fails, the snapshot and what is displayed
\* stay as they were.
C3_FailedReadKeepsSnapshot ==
    [][\A r \in Ids :
          (reqs[r].method = "GET" /\ InFlight(r) /\ reqs'[r].st = "failed")
          => (stocks' = stocks /\ view' = view /\ lastOk' = lastOk)]_vars

\* A GET failed after another had returned a non-empty inventory, which is
\* still the snapshot.
C3_Witness ==
    /\ lastOk # 0
    /\ stocks # EmptyMap
    /\ stocks = reqs[lastOk].resp
    /\ \E g \in Gets : g > lastOk /\ reqs[g].st = "failed"

\* C4 (as stated): once all requests of two or more activations have
\* completed, every activation has performed its own write followed by
\* its own read, and the snapshot is the body of the GET that returned last.
C4_EveryActivationWritesThenReads ==
    (AllDone /\ clicks >= 2) =>
        /\ \A a \in 1..clicks :
              /\ Cardinality(PostsBy(a)) = 1
              /\ Cardinality(GetsBy(a)) = 1
              /\ \A p \in PostsBy(a), g \in GetsBy(a) : p < g
        /\ lastOk # 0 => stocks = reqs[lastOk].resp

\* C4 (amended): each activation performs its own write, followed by its
\* own read if and only if that write succeeded; once all requests of two
\* or more activations have completed, the snapshot is the body of the GET
\* that returned successfully last.
C4_LastSuccessfulReadWins ==
    /\ \A a \in 1..clicks :
          /\ Cardinality(PostsBy(a)) = 1
          /\ Cardinality(GetsBy(a)) <= 1
          /\ \A p \in PostsBy(a) :
                /\ \A g \in GetsBy(a) : p < g
                /\ reqs[p].st = "ok" <=> GetsBy(a) # {}
    /\ (AllDone /\ clicks >= 2 /\ lastOk # 0) => stocks = reqs[lastOk].resp

\* Two activations overlapped (the second was made while the write of the
\* first was pending), both reads returned, the read of the first last.
C4_Witness ==
    /\ AllDone
    /\ \E a, b \in 1..clicks :
          /\ a < b
          /\ \E g \in GetsBy(a), p \in PostsBy(b), h \in GetsBy(b) :
                /\ p < g
                /\ reqs[g].st = "ok"
                /\ reqs[h].st = "ok"
                /\ lastOk = g
                /\ stocks = reqs[g].resp

\* C5: once all requests have completed, the snapshot differs from the
\* service's inventory exactly when the service applied a write after it
\* answered the GET that returned last: the response that lands last is
\* displayed, whether or not it reflects the most recent write.
C5_StaleReadIsDisplayed ==
    (AllDone /\ lastOk # 0) =>
        /\ reqs[lastOk].rver < ver => stocks # server
        /\ reqs[lastOk].rver = ver => stocks = server

\* The read of an earlier activation returned after the read of a later
\* one, and the snapshot is not the service's inventory.
C5_Witness ==
    /\ AllDone
    /\ stocks # server
    /\ \E g, h \in Gets :
          /\ 1 <= reqs[g].by
          /\ reqs[g].by < reqs[h].by
          /\ reqs[h].st = "ok"
          /\ lastOk = g

\* C6: as long as no GET has returned successfully, the snapshot is the
\* empty mapping.
C6_EmptyUntilFirstRead ==
    lastOk = 0 => stocks = << >>

\* No GET has returned yet although a write has been applied and has
\* completed, and the service's inventory is not empty.
C6_Witness ==
    /\ lastOk = 0
    /\ stocks = << >>
    /\ server # << >>
    /\ \E p \in Posts : reqs[p].st = "ok"
    /\ \E g \in Gets : reqs[g].st = "failed"

RequestKept(r) ==
    /\ r <= Len(reqs')
    /\ reqs'[r].method = reqs[r].method
    /\ reqs'[r].by = reqs[r].by
    /\ reqs'[r].st \in {"sent", "served", "ok", "failed"}
    /\ (clicks' # clicks \/ mounted' # mounted) => reqs'[r] = reqs[r]

\* C7: the create action is enabled whatever is in flight (once the
\* component is mounted, and up to the number of activations explored),
\* and no step cancels or drops a request: a request in flight is still
\* there after the step, untouched by an activation.
C7_NoDisablingNoCancellation ==
    /\ []((mounted /\ clicks < MaxClicks) => ENABLED addStock)
    /\ [][\A r \in Ids : InFlight(r) => RequestKept(r)]_vars

\* Two writes and a read are in flight at once.
C7_Witness ==
    /\ \E p, q \in Posts : p # q /\ InFlight(p) /\ InFlight(q)
    /\ \E g \in Gets : InFlight(g)

\* C8: what is displayed is one item "<name>: <quantity>" per key of the
\* snapshot; nothing for the empty snapshot, "x: 0" for {"x": 0}.
C8_OneItemPerKey ==
    /\ Len(view) = Cardinality(Keys(stocks))
    /\ \A i \in 1..Len(stocks) :
          i <= Len(view) /\ view[i] = stocks[i].k \o ": " \o ToString(stocks[i].v)
    /\ stocks = << >> => view = << >>
    /\ stocks = << [k |-> "x", v |-> 0] >> => view = << "x: 0" >>
    /\ stocks = << [k |-> "apples", v |-> 3], [k |-> "bananas", v |-> 5] >>
          => view = << "apples: 3", "bananas: 5" >>

\* The snapshot {"x": 0, "demo": 1} is on display.
C8_Witness ==
    /\ stocks = << [k |-> "x", v |-> 0], [k |-> "demo", v |-> 1] >>
    /\ view = << "x: 0", "demo: 1" >>

\* C9: the snapshot changes only in a step where a GET returns
\* successfully; an activation, a write being issued, applied or
\* completed, a read being issued or failing leave it as it is.
C9_OnlySuccessfulReadChangesSnapshot ==
    [][stocks' # stocks =>
          \E r \in Ids : /\ reqs[r].method = "GET"
                         /\ reqs[r].st = "served"
                         /\ reqs'[r].st = "ok"]_vars

\* The snapshot has been set, and a write has succeeded, a write has
\* failed and a read has failed.
C9_Witness ==
    /\ stocks # << >>
    /\ \E p \in Posts : reqs[p].st = "ok"
    /\ \E p \in Posts : reqs[p].st = "failed"
    /\ \E g \in Gets : reqs[g].st = "failed"

\* C10: the first request is the GET of the mount effect, the only one it
\* issues; every other GET belongs to an activation, which issues at most
\* one, after its own write has succeeded; so the GETs issued are at most
\* one more than the writes completed.
C10_ReadsFollowWrites ==
    /\ mounted <=> Cardinality(GetsBy(0)) = 1
    /\ GetsBy(0) \subseteq {1}
    /\ \A g \in Gets : reqs[g].by \in 0..clicks
    /\ \A a \in 1..clicks :
          /\ Cardinality(GetsBy(a)) <= 1
          /\ \A g \in GetsBy(a) :
                \E p \in PostsBy(a) : p < g /\ reqs[p].st = "ok"
    /\ Cardinality(Gets) <= 1 + Cardinality({ p \in Posts : Done(p) })

\* Every activation has issued its read: one GET more than writes completed.
C10_Witness ==
    /\ clicks >= 2
    /\ Cardinality(Gets) = 1 + clicks
    /\ Cardinality({ p \in Posts : Done(p) }) = clicks

====
